---------------------------- MODULE Spec2Model ----------------------------
(***************************************************************************)
(* Model of the current-transformer saturation core (src/core):            *)
(*   - TPXTransformer / BaseTransformer (transformer_models.py): the       *)
(*     saturation voltage, the flux / excitation recurrence, the sliding   *)
(*     RMS required voltages and the per-instance waveform cache;          *)
(*   - TransformerFactory.create;                                          *)
(*   - run_simulation (calc_engine.py), one action per statement.          *)
(*                                                                         *)
(* Number representation.  The program computes in float64.  Here a float  *)
(* quantity (current, voltage, flux, resistance, factor, time in seconds)   *)
(* is an integer count of 1/SC units (six decimal places), and             *)
(* the three IEEE special values the code can produce are the reserved     *)
(* integers PosInf, NegInf and NaN, with the IEEE rules for them written   *)
(* out in FAdd, FMul, FDiv, FLt ...  Frequencies and cycle counts are      *)
(* plain integers and a time step dt is an exact fraction <<num, den>> of  *)
(* a second.  An Optional[..] field is a sequence of length 0 (None) or 1. *)
(***************************************************************************)
EXTENDS Integers, Sequences, FiniteSets, TLC

\* ------------------------------------------------------------------ bounds
MaxFreq == 2      \* frequency_hz ranges over 1..MaxFreq
MaxCycles == 2    \* n_cycles ranges over 1..MaxCycles

\* ------------------------------------------------- fixed-point float model
K == 1000             \* square root of the float unit
SC == K * K           \* one float unit (1.0); also one second
PosInf == 2000000000  \* float("inf")
NegInf == 0 - PosInf  \* -inf
NaN == 2100000000     \* nan
\* Finite floats are kept below 1000.0 in magnitude: the inputs are chosen so.

None == << >>
Some(x) == << x >>
IsNone(o) == Len(o) = 0
Get(o) == o[1]

IsFinite(x) == x # NaN /\ x # PosInf /\ x # NegInf

Abs(x) == IF x < 0 THEN 0 - x ELSE x

\* p / q for integers, q > 0, rounded to nearest (ties away from zero)
RoundDivNat(p, q) == (p \div q) + (IF 2 * (p % q) >= q THEN 1 ELSE 0)

RoundDiv(p, q) == IF p >= 0 THEN RoundDivNat(p, q) ELSE 0 - RoundDivNat(0 - p, q)

\* a * b / SC rounded to nearest, for a, b >= 0: the product is formed from
\* the base-K digits of a and b so that no intermediate leaves 32 bits
MulNat(a, b) ==
    LET a1 == a \div K
        a0 == a % K
        b1 == b \div K
        b0 == b % K
        m == a1 * b0 + a0 * b1
    IN  a1 * b1 + (m \div K) + (((m % K) * K + a0 * b0 + (SC \div 2)) \div SC)

\* a * SC / b rounded to nearest, for a >= 0, b > 0: long division, one
\* decimal digit of the quotient per pass
RECURSIVE LongDiv(_, _, _, _)
LongDiv(q, r, b, scale) ==
    IF scale = 1 THEN q + (IF 2 * r >= b THEN 1 ELSE 0)
    ELSE LongDiv(10 * q + ((10 * r) \div b), (10 * r) % b, b, scale \div 10)

DivNat(a, b) == LongDiv(a \div b, a % b, b, SC)

\* np.sign / the sign of a float: nan stays nan
FSign(x) ==
    IF x = NaN THEN NaN
    ELSE IF x > 0 THEN SC ELSE IF x < 0 THEN 0 - SC ELSE 0

\* abs(x)
FAbs(x) == IF x = NaN THEN NaN ELSE IF x = NegInf THEN PosInf ELSE Abs(x)

\* -x
FNeg(x) ==
    IF x = NaN THEN NaN
    ELSE IF x = PosInf THEN NegInf
    ELSE IF x = NegInf THEN PosInf ELSE 0 - x

\* x + y
FAdd(x, y) ==
    IF x = NaN \/ y = NaN THEN NaN
    ELSE IF x = PosInf THEN (IF y = NegInf THEN NaN ELSE PosInf)
    ELSE IF x = NegInf THEN (IF y = PosInf THEN NaN ELSE NegInf)
    ELSE IF ~IsFinite(y) THEN y
    ELSE x + y

\* x - y
FSub(x, y) == FAdd(x, FNeg(y))

\* x * y
FMul(x, y) ==
    IF x = NaN \/ y = NaN THEN NaN
    ELSE IF ~IsFinite(x) \/ ~IsFinite(y)
         THEN (IF x = 0 \/ y = 0 THEN NaN
               ELSE IF (x > 0) = (y > 0) THEN PosInf ELSE NegInf)
    ELSE IF (x >= 0) = (y >= 0) THEN MulNat(Abs(x), Abs(y))
    ELSE 0 - MulNat(Abs(x), Abs(y))

\* x / y for y # 0 (the code never divides by a zero float)
FDiv(x, y) ==
    IF x = NaN \/ y = NaN THEN NaN
    ELSE IF ~IsFinite(x)
         THEN (IF ~IsFinite(y) THEN NaN
               ELSE IF (x > 0) = (y > 0) THEN PosInf ELSE NegInf)
    ELSE IF ~IsFinite(y) THEN 0
    ELSE IF (x >= 0) = (y >= 0) THEN DivNat(Abs(x), Abs(y))
    ELSE 0 - DivNat(Abs(x), Abs(y))

\* x < y and x > y: every comparison with nan is false
FLt(x, y) == x # NaN /\ y # NaN /\ x < y
FGt(x, y) == FLt(y, x)

\* floor(sqrt(m)) for an integer m >= 0
RECURSIVE ISqrtIter(_, _, _)
ISqrtIter(m, lo, hi) ==
    IF lo >= hi THEN lo
    ELSE LET mid == (lo + hi + 1) \div 2
         IN  IF mid <= m \div mid THEN ISqrtIter(m, mid, hi)
                                  ELSE ISqrtIter(m, lo, mid - 1)

ISqrt(m) == IF m <= 0 THEN 0 ELSE ISqrtIter(m, 1, 46340)

\* Newton's iteration r <- (r + x / r) / 2 for the square root of a float
RECURSIVE SqrtNewton(_, _, _)
SqrtNewton(x, r, passes) ==
    IF passes = 0 \/ r = 0 THEN r
    ELSE SqrtNewton(x, (r + DivNat(x, r) + 1) \div 2, passes - 1)

\* np.sqrt(x) of a non-negative float
FSqrt(x) ==
    IF x = NaN THEN NaN
    ELSE IF x = PosInf THEN PosInf
    ELSE IF x = 0 THEN 0
    ELSE SqrtNewton(x, K * (ISqrt(x) + 1), 3)

\* x ** e for a float x >= 0 and a float exponent e that is a multiple of
\* one half, with numpy scalar semantics: x ** 0 = 1, 0 ** negative = inf (a
\* warning, not an exception), nan ** e = nan.
RECURSIVE FPowInt(_, _)
FPowInt(x, k) == IF k = 0 THEN SC ELSE FMul(x, FPowInt(x, k - 1))

FPow(x, e) ==
    IF e = 0 THEN SC
    ELSE IF x = NaN THEN NaN
    ELSE IF x = 0 THEN (IF e > 0 THEN 0 ELSE PosInf)
    ELSE IF x = PosInf THEN (IF e > 0 THEN PosInf ELSE 0)
    ELSE LET k == Abs(e) \div (SC \div 2)
             p == IF k % 2 = 0 THEN FPowInt(x, k \div 2)
                  ELSE FMul(FSqrt(x), FPowInt(x, k \div 2))
         IN  IF e > 0 THEN p
             ELSE IF p = 0 THEN PosInf ELSE FDiv(SC, p)

\* ----------------------------------------------- elementary functions
SQRT2 == 1414214     \* np.sqrt(2.0)
TWO_PI == 6283185    \* 2.0 * np.pi
EXP_M1 == 367879     \* np.exp(-1.0)

\* exp(-x) for a finite float x in [0, 1): alternating Taylor series
ExpNegFrac(x) ==
    LET h(k, inner) == SC - RoundDiv(MulNat(x, inner), k)
    IN  h(1, h(2, h(3, h(4, h(5, h(6, h(7, h(8, h(9, h(10, SC))))))))))

\* np.exp(-x) for a finite float x >= 0
RECURSIVE ExpNeg(_)
ExpNeg(x) ==
    IF x >= SC THEN MulNat(EXP_M1, ExpNeg(x - SC))
    ELSE ExpNegFrac(x)

\* cos and sin of an angle in [0, pi/4], given in float radians
CosSmall(x) ==
    LET x2 == MulNat(x, x)
        h(k, inner) == SC - RoundDiv(MulNat(x2, inner), k)
    IN  h(2, h(12, h(30, h(56, h(90, SC)))))

SinSmall(x) ==
    LET x2 == MulNat(x, x)
        h(k, inner) == SC - RoundDiv(MulNat(x2, inner), k)
    IN  MulNat(x, h(6, h(20, h(42, h(72, h(110, SC))))))

\* np.cos(omega * t) with omega = 2 pi f: the phase f * t is reduced to one
\* turn, then to the first octant by the symmetries of the cosine.
CosOmegaT(f, t) ==
    LET u0 == (f * t) % SC
        u1 == IF u0 > SC \div 2 THEN SC - u0 ELSE u0
        neg == u1 > SC \div 4
        u2 == IF neg THEN SC \div 2 - u1 ELSE u1
        c == IF u2 <= SC \div 8 THEN CosSmall(MulNat(TWO_PI, u2))
             ELSE SinSmall(MulNat(TWO_PI, SC \div 4 - u2))
    IN  IF neg THEN 0 - c ELSE c

\* --------------------------------------------------- float64, bit for bit
\* n_samples and samples_per_cycle are integers cut out of float quotients,
\* so these quotients are computed as IEEE-754 doubles, exactly.  A positive
\* double is [m, e], standing for m * 2^e with 2^52 <= m < 2^53; m is a
\* natural number held as five limbs of 15 bits, least significant first.
LimbBase == 32768
BigZero == << 0, 0, 0, 0, 0 >>
TwoPow52 == << 0, 0, 0, 128, 0 >>
TwoPow53 == << 0, 0, 0, 256, 0 >>

\* a natural number below 2^31 as limbs, and back
BigOfInt(k) ==
    << k % LimbBase, (k \div LimbBase) % LimbBase, k \div (LimbBase * LimbBase), 0, 0 >>
BigToInt(a) == a[1] + LimbBase * a[2] + LimbBase * LimbBase * a[3]

BigGeq(a, b) ==
    IF a[5] # b[5] THEN a[5] > b[5]
    ELSE IF a[4] # b[4] THEN a[4] > b[4]
    ELSE IF a[3] # b[3] THEN a[3] > b[3]
    ELSE IF a[2] # b[2] THEN a[2] > b[2]
    ELSE a[1] >= b[1]

BigOdd(a) == a[1] % 2 = 1

\* a - b for a >= b
BigSub(a, b) ==
    LET d1 == a[1] - b[1]
        d2 == a[2] - b[2] - (IF d1 < 0 THEN 1 ELSE 0)
        d3 == a[3] - b[3] - (IF d2 < 0 THEN 1 ELSE 0)
        d4 == a[4] - b[4] - (IF d3 < 0 THEN 1 ELSE 0)
        d5 == a[5] - b[5] - (IF d4 < 0 THEN 1 ELSE 0)
    IN  << d1 % LimbBase, d2 % LimbBase, d3 % LimbBase, d4 % LimbBase, d5 % LimbBase >>

\* a * k + c for 0 <= k, c < LimbBase
BigMulAdd(a, k, c) ==
    LET p1 == a[1] * k + c
        p2 == a[2] * k + (p1 \div LimbBase)
        p3 == a[3] * k + (p2 \div LimbBase)
        p4 == a[4] * k + (p3 \div LimbBase)
        p5 == a[5] * k + (p4 \div LimbBase)
    IN  << p1 % LimbBase, p2 % LimbBase, p3 % LimbBase, p4 % LimbBase, p5 % LimbBase >>

\* 2^i for i in 0..30
Pow2(i) ==
    << 1, 2, 4, 8, 16, 32, 64, 128, 256, 512, 1024, 2048, 4096, 8192, 16384,
       32768, 65536, 131072, 262144, 524288, 1048576, 2097152, 4194304,
       8388608, 16777216, 33554432, 67108864, 134217728, 268435456,
       536870912, 1073741824 >>[i + 1]

\* floor(a / 2^s) for s in 0..14
BigShr(a, s) ==
    << (a[1] \div Pow2(s)) + (a[2] % Pow2(s)) * Pow2(15 - s),
       (a[2] \div Pow2(s)) + (a[3] % Pow2(s)) * Pow2(15 - s),
       (a[3] \div Pow2(s)) + (a[4] % Pow2(s)) * Pow2(15 - s),
       (a[4] \div Pow2(s)) + (a[5] % Pow2(s)) * Pow2(15 - s),
       a[5] \div Pow2(s) >>

\* a * 2^s (here and below, a loop passes its next state on as a value)
RECURSIVE BigShl(_, _)
BigShl(a, s) ==
    IF s = 0 THEN a
    ELSE CHOOSE out \in { BigShl(a2, IF s > 14 THEN s - 14 ELSE 0) :
                             a2 \in { BigMulAdd(a, Pow2(IF s > 14 THEN 14 ELSE s), 0) } } : TRUE

\* m shifted right by s bits, s in 0..14, with the last bit shifted out
\* (round_bit) and whether any bit shifted out before it was set (sticky)
ShiftRightRound(m, s, round_bit, sticky) ==
    IF s = 0 THEN [m |-> m, round_bit |-> round_bit, sticky |-> sticky]
    ELSE [m |-> BigShr(m, s),
          round_bit |-> (m[1] % Pow2(s)) >= Pow2(s - 1),
          sticky |-> sticky \/ round_bit \/ (m[1] % Pow2(s - 1)) # 0]

\* round to nearest, ties to even
RoundNearestEven(m, e, round_bit, sticky) ==
    IF round_bit /\ (sticky \/ BigOdd(m))
    THEN IF BigMulAdd(m, 1, 1) = TwoPow53 THEN [m |-> TwoPow52, e |-> e + 1]
         ELSE [m |-> BigMulAdd(m, 1, 1), e |-> e]
    ELSE [m |-> m, e |-> e]

\* m * 2^e, 2^52 <= m < 2^67, rounded to 53 bits
RoundTo53(m, e, sticky) ==
    CHOOSE out \in
        { RoundNearestEven(sh.m, e + s, sh.round_bit, sh.sticky) :
            s \in { Cardinality({ i \in 1..14 : BigGeq(m, BigMulAdd(TwoPow52, Pow2(i), 0)) }) },
            sh \in { ShiftRightRound(m, Cardinality({ i \in 1..14 :
                                         BigGeq(m, BigMulAdd(TwoPow52, Pow2(i), 0)) }),
                                     FALSE, sticky) } } : TRUE

\* the number of bits of an integer 0 < k < 2^31
BitLength(k) == Cardinality({ i \in 0..30 : k >= Pow2(i) })

\* float(k) for an integer 0 < k < 2^31
FloatOfInt(k) == [m |-> BigShl(BigOfInt(k), 53 - BitLength(k)), e |-> BitLength(k) - 53]

\* x * k for a double x and an integer 0 < k < 2^14 (exact as a float)
FloatMulInt(x, k) == RoundTo53(BigMulAdd(x.m, k, 0), x.e, FALSE)

\* one step of the long division of r by b (r < b) in base 32: the next
\* digit appended to q, and the remainder left
DigitStepOn(r32, b, q) ==
    CHOOSE st \in { [r |-> BigSub(r32, BigMulAdd(b, d, 0)), q |-> BigMulAdd(q, 32, d)] :
                       d \in { Cardinality({ i \in 1..31 :
                                               BigGeq(r32, BigMulAdd(b, i, 0)) }) } } : TRUE
DigitStep(r, b, q) ==
    CHOOSE st \in { DigitStepOn(r32, b, q) : r32 \in { BigMulAdd(r, 32, 0) } } : TRUE

\* `left` more digits of r / b appended to q, and whether a remainder is left
RECURSIVE DivDigits(_, _, _, _)
DivDigits(r, b, q, left) ==
    IF left = 0 THEN [q |-> q, sticky |-> r # BigZero]
    ELSE CHOOSE out \in { DivDigits(st.r, b, st.q, left - 1) :
                             st \in { DigitStep(r, b, q) } } : TRUE

\* x / y for doubles x, y > 0: 56 bits of the quotient, then rounded
FloatDiv(x, y) ==
    CHOOSE out \in
        { RoundTo53(digits.q, x.e - y.e - 55, digits.sticky) :
            digits \in { IF BigGeq(x.m, y.m)
                         THEN DivDigits(BigSub(x.m, y.m), y.m, BigOfInt(1), 11)
                         ELSE DivDigits(x.m, y.m, BigZero, 11) } } : TRUE

\* the integer part of m * 2^e (e < 0, the value below 2^31), with the first
\* bit after the point (round_bit) and whether any later bit is set (sticky)
RECURSIVE IntegerPart(_, _, _, _)
IntegerPart(m, e, round_bit, sticky) ==
    IF e >= 0 THEN [q |-> BigToInt(m), round_bit |-> round_bit, sticky |-> sticky]
    ELSE CHOOSE out \in
            { IntegerPart(sh.m, IF e < 0 - 14 THEN e + 14 ELSE 0, sh.round_bit, sh.sticky) :
                sh \in { ShiftRightRound(m, IF e < 0 - 14 THEN 14 ELSE 0 - e,
                                         round_bit, sticky) } } : TRUE

\* int(np.ceil(x)) and int(round(x)) for a double 0 < x < 2^31
FloatCeil(x) ==
    CHOOSE n \in { p.q + (IF p.round_bit \/ p.sticky THEN 1 ELSE 0) :
                      p \in { IntegerPart(x.m, x.e, FALSE, FALSE) } } : TRUE
FloatRound(x) ==
    CHOOSE n \in { p.q + (IF p.round_bit /\ (p.sticky \/ p.q % 2 = 1) THEN 1 ELSE 0) :
                      p \in { IntegerPart(x.m, x.e, FALSE, FALSE) } } : TRUE

\* the double a time step <<num, den>> is given as: num / den
FloatOfStep(dt) == FloatDiv(FloatOfInt(dt[1]), FloatOfInt(dt[2]))

\* ------------------------------------------------------------ data model
\* CTParams (types.py): float fields in SC units, v_sat optional.
\* SimulationParams (types.py): frequency_hz and n_cycles integers, ip_fault
\* and t_const_primary floats, dt an optional fraction <<num, den>> of 1 s.
AutoSamplesPerCycle == 200

\* x * dt for a float x and a time step dt = <<num, den>> > 0
MulDt(x, dt) == IF IsFinite(x) THEN RoundDiv(x * dt[1], dt[2]) ELSE x

\* the time step simulate_waveforms integrates with
StepOf(sim_params) ==
    IF IsNone(sim_params.dt)
    THEN << 1, sim_params.frequency_hz * AutoSamplesPerCycle >>
    ELSE Get(sim_params.dt)

\* total_time = n_cycles / frequency_hz, in time units
TotalTime(sim_params) == RoundDiv(sim_params.n_cycles * SC, sim_params.frequency_hz)

\* total_time / dt as the double the code divides out:
\* (n_cycles / frequency_hz) / dt, dt = 1.0 / (frequency_hz * 200.0) if unset
SamplesQuotient(sim_params) ==
    FloatDiv(FloatDiv(FloatOfInt(sim_params.n_cycles), FloatOfInt(sim_params.frequency_hz)),
             FloatOfStep(StepOf(sim_params)))

\* variant: one sample short of the rounded-up count
NSamples_one_short(sim_params) == FloatCeil(SamplesQuotient(sim_params)) - 1

\* n_samples = int(np.ceil(total_time / dt))
NSamples(sim_params) == FloatCeil(SamplesQuotient(sim_params))

\* the array with elements e(1), ..., e(n), held as a sequence of values
Array(n, e(_)) == SubSeq([j \in 1..n |-> e(j)], 1, n)

\* t = np.linspace(0.0, total_time, n_samples, endpoint=False)
TimeGrid(sim_params) ==
    LET grid(n, total) ==
            LET sample(j) == (j - 1) * (total \div n)
                             + RoundDivNat((j - 1) * (total % n), n)
            IN  Array(n, sample)
    IN  grid(NSamples(sim_params), TotalTime(sim_params))

\* variant: the override tested for truth ("if self.params.v_sat:"), so that
\* an override of 0 V counts as unset
calculate_saturation_voltage_truthy(ct) ==
    IF ~IsNone(ct.v_sat) /\ Get(ct.v_sat) # 0 THEN Get(ct.v_sat)
    ELSE FMul(FMul(FMul(FMul(ct.k_h, ct.k_ssc), ct.k_td), FAdd(ct.r_ct, ct.r_b)), ct.i_sn)

\* TPXTransformer.calculate_saturation_voltage
calculate_saturation_voltage(ct) ==
    IF ~IsNone(ct.v_sat) THEN Get(ct.v_sat)
    ELSE FMul(FMul(FMul(FMul(ct.k_h, ct.k_ssc), ct.k_td), FAdd(ct.r_ct, ct.r_b)), ct.i_sn)

\* TPXTransformer._compute_i_ideal, one sample at time t
compute_i_ideal(ct, sim_params, t) ==
    LET amp == FDiv(FMul(SQRT2, sim_params.ip_fault), ct.ct_ratio)
        decay == ExpNeg(FDiv(t, sim_params.t_const_primary))
    IN  FMul(amp, FSub(decay, CosOmegaT(sim_params.frequency_hz, t)))

\* TPXTransformer._update_flux
update_flux(ct, lambda_prev, i_ideal_k, i_exc_prev, dt) ==
    LET damp == IF ct.s # SC THEN FPow(FAbs(lambda_prev), FSub(ct.s, SC)) ELSE SC
        denom == FAdd(SC, FMul(FMul(ct.s, ct.a), damp))
        d_lambda == MulDt(FDiv(FMul(ct.ct_ratio, FSub(i_ideal_k, i_exc_prev)), denom), dt)
    IN  FAdd(lambda_prev, d_lambda)

\* TPXTransformer._compute_excitation_current
compute_excitation_current(ct, lambda_k) ==
    IF lambda_k = 0 THEN 0
    ELSE FMul(FMul(ct.a, FPow(FAbs(lambda_k), ct.s)), FSign(lambda_k))

\* one pass of the loop body of simulate_waveforms, for array index j: st
\* holds the flux, i_exc and i_real arrays filled so far
IntegrateStep(ct, i_ideal, dt, j, st) ==
    LET store(lam, i_exc_k) ==
            [flux |-> Append(st.flux, lam),
             i_exc |-> Append(st.i_exc, i_exc_k),
             i_real |-> Append(st.i_real, FSub(i_ideal[j], i_exc_k))]
        excite(lam) == store(lam, compute_excitation_current(ct, lam))
    IN  excite(update_flux(ct, st.flux[j - 1], i_ideal[j], st.i_exc[j - 1], dt))

\* the loop "for k in range(1, n_samples)": the passes lo..hi in order (the
\* range is halved so that the evaluation nests only logarithmically deep)
RECURSIVE IntegrateRange(_, _, _, _, _, _)
IntegrateRange(ct, i_ideal, dt, lo, hi, st) ==
    IF lo > hi THEN st
    ELSE IF lo = hi THEN IntegrateStep(ct, i_ideal, dt, lo, st)
    ELSE LET mid == (lo + hi) \div 2
             rest(half) ==
                 IF Len(half.flux) = mid
                 THEN IntegrateRange(ct, i_ideal, dt, mid + 1, hi, half)
                 ELSE half
         IN  rest(IntegrateRange(ct, i_ideal, dt, lo, mid, st))

\* TPXTransformer.simulate_waveforms: the Waveforms it builds.  (Each
\* intermediate array is bound as an operator argument so that it is
\* evaluated once.)
simulate_waveforms(ct, sim_params) ==
    LET r_total == FAdd(ct.r_ct, ct.r_b)
        pack(t, i_ideal, st) ==
            LET v(j) == FMul(r_total, FAbs(st.i_real[j]))
            IN  [t |-> t,
                 i_ideal |-> i_ideal,
                 i_real |-> st.i_real,
                 i_excitation |-> st.i_exc,
                 flux |-> st.flux,
                 v_req_instant |-> Array(Len(t), v)]
        zero(t) == IF Len(t) = 0 THEN << >> ELSE << 0 >>
        integrate(t, i_ideal) ==
            pack(t, i_ideal,
                 IntegrateRange(ct, i_ideal, StepOf(sim_params), 2, Len(t),
                                [flux |-> zero(t), i_exc |-> zero(t), i_real |-> zero(t)]))
        on_grid(t) ==
            LET ideal(j) == compute_i_ideal(ct, sim_params, t[j])
            IN  integrate(t, Array(Len(t), ideal))
    IN  on_grid(TimeGrid(sim_params))

\* ------------------------------------------- BaseTransformer (the instance)
\* A model instance: its CTParams and the Optional _last_waveforms cache.
NewTransformer(ct) == [params |-> ct, last_waveforms |-> None]

\* TPXTransformer.simulate_waveforms as a method: caches, then returns
SimulateOn(tr, sim_params) ==
    LET cached(w) == [tr |-> [tr EXCEPT !.last_waveforms = Some(w)], waveforms |-> w]
    IN  cached(simulate_waveforms(tr.params, sim_params))

\* BaseTransformer._ensure_waveforms
ensure_waveforms(tr, sim_params) ==
    IF IsNone(tr.last_waveforms) THEN SimulateOn(tr, sim_params)
    ELSE [tr |-> tr, waveforms |-> Get(tr.last_waveforms)]

\* 1.0 / (frequency_hz * dt) as the double the code rounds, dt resolved
CycleQuotient(sim_params) ==
    FloatDiv(FloatOfInt(1),
             FloatMulInt(FloatOfStep(Get(sim_params.dt)), sim_params.frequency_hz))

\* variant: ties rounded up (0.5 -> 1) instead of to even
samples_per_cycle_half_up(sim_params) ==
    CHOOSE n \in { p.q + (IF p.round_bit THEN 1 ELSE 0) :
                      p \in { IntegerPart(CycleQuotient(sim_params).m,
                                          CycleQuotient(sim_params).e, FALSE, FALSE) } } : TRUE

\* samples_per_cycle = int(round(1.0 / (frequency_hz * dt))), dt resolved
samples_per_cycle(sim_params) == FloatRound(CycleQuotient(sim_params))

\* sums over the window x[lo..hi] of the quotients and of the remainders of
\* x[j] by w (halving the range, as in IntegrateRange)
RECURSIVE SumSqQuot(_, _, _, _)
SumSqQuot(x, lo, hi, w) ==
    IF lo = hi THEN x[lo] \div w
    ELSE LET mid == (lo + hi) \div 2
         IN  SumSqQuot(x, lo, mid, w) + SumSqQuot(x, mid + 1, hi, w)

RECURSIVE SumSqRem(_, _, _, _)
SumSqRem(x, lo, hi, w) ==
    IF lo = hi THEN x[lo] % w
    ELSE LET mid == (lo + hi) \div 2
         IN  SumSqRem(x, lo, mid, w) + SumSqRem(x, mid + 1, hi, w)

\* np.mean(window) for the finite window x[lo..hi]: floor(sum / w), summed
\* without leaving the integer range
Mean(x, lo, hi) ==
    LET w == hi - lo + 1
    IN  SumSqQuot(x, lo, hi, w) + (SumSqRem(x, lo, hi, w) \div w)

\* variant: the mean forgotten, np.sqrt(np.sum(window ** 2))
WindowRms_of_sum(sq, lo, hi) ==
    IF \E j \in lo..hi : sq[j] = NaN THEN NaN
    ELSE IF \E j \in lo..hi : ~IsFinite(sq[j]) THEN PosInf
    ELSE FSqrt(SumSqQuot(sq, lo, hi, 1))

\* float(np.sqrt(np.mean(window ** 2))) for window = i_real[lo..hi], given
\* sq, the elementwise squares of i_real
WindowRms(sq, lo, hi) ==
    IF \E j \in lo..hi : sq[j] = NaN THEN NaN
    ELSE IF \E j \in lo..hi : ~IsFinite(sq[j]) THEN PosInf
    ELSE FSqrt(Mean(sq, lo, hi))

\* rms_values: one RMS per window end in range(samples_per_cycle, n + 1)
RmsValues(i_real, spc) ==
    LET square(j) == FMul(i_real[j], i_real[j])
        windows(sq) ==
            LET rms(j) == WindowRms(sq, j, j + spc - 1)
            IN  Array(Len(i_real) - spc + 1, rms)
    IN  windows(Array(Len(i_real), square))

\* np.max of a non-empty array: nan if any element is nan
RECURSIVE MaxOver(_, _, _)
MaxOver(x, lo, hi) ==
    IF lo = hi THEN x[lo]
    ELSE LET mid == (lo + hi) \div 2
             l == MaxOver(x, lo, mid)
             r == MaxOver(x, mid + 1, hi)
         IN  IF r > l THEN r ELSE l

\* variant: the RMS of the last window taken for the maximum
FMax_last(x) == x[Len(x)]

FMax(x) == IF \E j \in 1..Len(x) : x[j] = NaN THEN NaN ELSE MaxOver(x, 1, Len(x))

\* BaseTransformer.calculate_required_voltages: the updated instance, the
\* outcome ("ok" or the failure raised) and the two voltages
calculate_required_voltages(tr, sim_params) ==
    LET r_total == FAdd(tr.params.r_ct, tr.params.r_b)
        voltages(tr1, rms_values) ==
            [tr |-> tr1, status |-> "ok",
             value |-> << FMul(r_total, rms_values[Len(rms_values)]),
                          FMul(r_total, FMax(rms_values)) >>]
        with(ens) ==
            LET i_real == ens.waveforms.i_real
                fail(e) == [tr |-> ens.tr, status |-> e, value |-> << >>]
                checked(spc) ==
                    IF spc <= 0 THEN fail("InvalidConfiguration")
                    ELSE IF Len(i_real) < spc THEN fail("InsufficientData")
                    ELSE voltages(ens.tr, RmsValues(i_real, spc))
            IN  IF IsNone(sim_params.dt) THEN fail("InvalidState")
                ELSE CHOOSE out \in { checked(spc) :
                                        spc \in { samples_per_cycle(sim_params) } } : TRUE
    IN  with(ensure_waveforms(tr, sim_params))

\* ------------------------------------------------------ TransformerFactory
\* A CT-type identifier is a string, kept as its sequence of characters.
\* the lower-case letters of ASCII and Latin-1 that str.upper() maps to one
\* character, and those characters in the same order (the capitals of y with
\* diaeresis and of the micro sign lie outside Latin-1 and are written by
\* their code points)
LowerLetters ==
    << "a", "b", "c", "d", "e", "f", "g", "h", "i", "j", "k", "l", "m",
       "n", "o", "p", "q", "r", "s", "t", "u", "v", "w", "x", "y", "z",
       "à", "á", "â", "ã", "ä", "å", "æ", "ç", "è", "é", "ê", "ë", "ì",
       "í", "î", "ï", "ð", "ñ", "ò", "ó", "ô", "õ", "ö", "ø", "ù", "ú",
       "û", "ü", "ý", "þ", "ÿ", "µ" >>
UpperLetters ==
    << "A", "B", "C", "D", "E", "F", "G", "H", "I", "J", "K", "L", "M",
       "N", "O", "P", "Q", "R", "S", "T", "U", "V", "W", "X", "Y", "Z",
       "À", "Á", "Â", "Ã", "Ä", "Å", "Æ", "Ç", "È", "É", "Ê", "Ë", "Ì",
       "Í", "Î", "Ï", "Ð", "Ñ", "Ò", "Ó", "Ô", "Õ", "Ö", "Ø", "Ù", "Ú",
       "Û", "Ü", "Ý", "Þ", "U+0178", "U+039C" >>

\* str.upper() of one character, as the characters it becomes: a cased letter
\* becomes its capital, the sharp s becomes SS, any other character of
\* Latin-1 is kept
UpperChar(c) ==
    IF c = "ß" THEN << "S", "S" >>
    ELSE IF \E i \in DOMAIN LowerLetters : LowerLetters[i] = c
         THEN << UpperLetters[CHOOSE i \in DOMAIN LowerLetters : LowerLetters[i] = c] >>
         ELSE << c >>

\* variant: the identifier looked up as given (case-sensitive)
Upper_as_given(str) == str

\* str.upper()
RECURSIVE Upper(_)
Upper(str) == IF str = << >> THEN << >> ELSE UpperChar(Head(str)) \o Upper(Tail(str))

\* TransformerFactory._registry: identifier -> model class
Registry == [key \in { << "T", "P", "X" >> } |-> "TPXTransformer"]

\* a raised ValueError: which failure it is and the identifier its message names
Raise(kind, named) == [error |-> kind, names |-> named]

\* TransformerFactory.create: the new instance, or the error raised
FactoryCreate(ct_type, ct) ==
    IF Upper(ct_type) \in DOMAIN Registry
    THEN [status |-> "ok", tr |-> Some(NewTransformer(ct)),
          cls |-> Registry[Upper(ct_type)], raised |-> None]
    ELSE [status |-> "UnsupportedType", tr |-> None, cls |-> "",
          raised |-> Some(Raise("UnsupportedType", ct_type))]

\* ------------------------------------------------------------ calc_engine
\* variant: the resolution skipped, dt returned as supplied
resolve_dt_skipped(sim_params) == sim_params

\* variant: the 200 samples per cycle forgotten, dt = 1 / frequency_hz
resolve_dt_one_per_cycle(sim_params) ==
    IF ~IsNone(sim_params.dt) THEN sim_params
    ELSE [sim_params EXCEPT !.dt = Some(<< 1, sim_params.frequency_hz >>)]

\* the samples per cycle _resolve_dt aims at
ResolveSamplesPerCycle == 200

\* _resolve_dt
resolve_dt(sim_params) ==
    IF ~IsNone(sim_params.dt) THEN sim_params
    ELSE [sim_params EXCEPT
            !.dt = Some(<< 1, sim_params.frequency_hz * ResolveSamplesPerCycle >>)]

\* idx = np.where(v_req_instant > vsat)[0]
CrossingIndices(v_req_instant, v_sat) ==
    {j \in 1..Len(v_req_instant) : FGt(v_req_instant[j], v_sat)}

Min(S) == CHOOSE m \in S : \A j \in S : m <= j

\* variant: the first sample that reaches vsat (>=) instead of exceeding it
compute_tsat_reaching(wave_t, v_req_instant, v_sat) ==
    LET idx == {j \in 1..Len(v_req_instant) :
                   v_req_instant[j] # NaN /\ v_sat # NaN /\ v_req_instant[j] >= v_sat}
    IN  IF idx = {} THEN PosInf ELSE wave_t[Min(idx)]

\* _compute_tsat
compute_tsat(wave_t, v_req_instant, v_sat) ==
    LET idx == CrossingIndices(v_req_instant, v_sat)
    IN  IF idx = {} THEN PosInf ELSE wave_t[Min(idx)]

\* variant: equality counted as saturated (<=)
Saturated_or_equal(v_sat, v_req) == v_sat # NaN /\ v_req # NaN /\ v_sat <= v_req

\* saturated_perm = vsat < v_req_perm ; saturated_trans = vsat < v_req_trans
Saturated(v_sat, v_req) == FLt(v_sat, v_req)

\* the tail of run_simulation: the flags, tsat and the SimulationResult
AssembleResult(ct, sim_params, w, v_sat, v_req_perm, v_req_trans) ==
    LET saturated_perm == Saturated(v_sat, v_req_perm)
        saturated_trans == Saturated(v_sat, v_req_trans)
        tsat == IF saturated_trans THEN compute_tsat(w.t, w.v_req_instant, v_sat)
                ELSE PosInf
    IN  [ct_params |-> ct, sim_params |-> sim_params, waveforms |-> w,
         vsat |-> v_sat, v_req_perm |-> v_req_perm, v_req_trans |-> v_req_trans,
         tsat |-> tsat, saturated_perm |-> saturated_perm,
         saturated_trans |-> saturated_trans]

\* ------------------------------------------------------------------ inputs
CT(s, a, v_sat) ==
    [ct_ratio |-> SC, r_ct |-> SC \div 2, r_b |-> SC, i_sn |-> SC,
     k_h |-> 2 * SC, k_ssc |-> SC \div 2, k_td |-> SC,
     v_sat |-> v_sat, s |-> s, a |-> a]

Exponents == { SC \div 2, SC, 2 * SC }
Gains == { 0, SC }
VSatChoices == { None, Some(0), Some(SC) }

CTSet == { CT(s, a, v) : s \in Exponents, a \in Gains, v \in VSatChoices }
FineCTSet == { ct \in CTSet : IsNone(ct.v_sat) }
BaseCT == CT(2 * SC, SC, None)

Settings(f, n, ip, dt) ==
    [frequency_hz |-> f, n_cycles |-> n, ip_fault |-> ip,
     t_const_primary |-> SC \div 2, dt |-> dt]

\* explicit time steps: a quarter second, one and a half seconds, two seconds
CoarseSteps == { Some(<< 1, 4 >>), Some(<< 3, 2 >>), Some(<< 2, 1 >>) }

CoarseSettings ==
    { Settings(f, n, ip, dt) : f \in 1..MaxFreq, n \in 1..MaxCycles,
                               ip \in { 0, SC }, dt \in CoarseSteps }

\* dt left unset (the front end's "auto")
AutoSettings == { Settings(f, n, SC, None) : f \in 1..MaxFreq, n \in 1..MaxCycles }

\* a fault current whose required voltage stays near the saturation voltage
LowFaultSettings ==
    { Settings(f, n, SC \div 2, Some(<< 1, 4 >>)) : f \in 1..MaxFreq, n \in 1..MaxCycles }

\* settings at which the rounding of the doubles decides a count: 1/dt just
\* above 49, 1/(frequency_hz*dt) just above 24.5, and (dt unset) 1/17 divided
\* by 1/3400 just above 200
TieSettings ==
    { Settings(1, 1, SC, Some(<< 1, 49 >>)), Settings(1, 1, SC, Some(<< 2, 49 >>)),
      Settings(17, 1, SC, None) }

CtTypeSet ==
    { << "T", "P", "X" >>, << "t", "p", "x" >>, << "T", "p", "x" >>,
      << "T", "P", "Z" >>, << "t", "p", "z" >>, << "T", "P" >>, << >>,
      << "t", "p", "a" >>, << "a", "b", "c" >>, << "é" >>, << "ß", "t", "p", "x" >> }

Call(ct, sim_params, ct_type) ==
    [ct_params |-> ct, sim_params |-> sim_params, ct_type |-> ct_type]

\* the calls of run_simulation that are explored
RunInputs ==
    { Call(ct, sp, << "T", "P", "X" >>) : ct \in CTSet, sp \in CoarseSettings }
    \cup { Call(ct, sp, << "T", "P", "X" >>) : ct \in FineCTSet, sp \in AutoSettings }
    \cup { Call(ct, sp, << "T", "P", "X" >>) : ct \in FineCTSet, sp \in LowFaultSettings }
    \cup { Call(BaseCT, sp, << "T", "P", "X" >>) : sp \in TieSettings }
    \cup { Call(BaseCT, Settings(1, 1, SC, Some(<< 1, 4 >>)), ty) : ty \in CtTypeSet }

\* the parameters and settings the calls on one model instance are drawn from
ModelCTSet ==
    { CT(2 * SC, SC, v) : v \in VSatChoices }
    \cup { CT(s, a, None) : s \in Exponents, a \in Gains }

ModelSettings ==
    { Settings(f, 1, SC, Some(<< 1, 4 >>)) : f \in 1..MaxFreq }
    \cup { Settings(1, 1, SC, None), Settings(1, 1, SC, Some(<< 2, 1 >>)) }
    \cup { sp \in TieSettings : sp.dt = Some(<< 2, 49 >>) }

\* ------------------------------------------------------------------- state
VARIABLES
    inst,         \* the model instance a client holds (Optional)
    ret,          \* what the client's last call on it returned or raised
    pc,           \* run_simulation: the statement reached
    call,         \* run_simulation: its arguments
    sim_params,   \* run_simulation: the local sim_params (Optional until bound)
    transformer,  \* run_simulation: the local model instance (Optional)
    vsat,         \* run_simulation: the local vsat (Optional)
    waveforms,    \* run_simulation: the local waveforms (Optional)
    v_req,        \* run_simulation: << v_req_perm, v_req_trans >> once computed
    result,       \* run_simulation: the SimulationResult returned (Optional)
    raised        \* run_simulation: the error that left it (Optional)

clientVars == << inst, ret >>
runVars == << pc, call, sim_params, transformer, vsat, waveforms, v_req, result, raised >>
vars == << inst, ret, pc, call, sim_params, transformer, vsat, waveforms, v_req,
           result, raised >>

NoCall == Call(BaseCT, Settings(1, 1, 0, None), << >>)
Returned(op, arg, status, value, named) ==
    [op |-> op, arg |-> arg, status |-> status, value |-> value, names |-> named]

Init ==
    /\ inst = None
    /\ ret = Returned("none", None, "ok", None, None)
    /\ pc = "idle"
    /\ call = NoCall
    /\ sim_params = None
    /\ transformer = None
    /\ vsat = None
    /\ waveforms = None
    /\ v_req = None
    /\ result = None
    /\ raised = None

\* ------------------------------------------------ run_simulation, by statement
\* def run_simulation(ct_params, sim_params, ct_type): entry
RunCall(in) ==
    /\ pc \in { "idle", "returned", "raised" }
    /\ ret.op = "none"
    /\ call' = in
    /\ pc' = "resolve"
    /\ sim_params' = None
    /\ transformer' = None
    /\ vsat' = None
    /\ waveforms' = None
    /\ v_req' = None
    /\ result' = None
    /\ raised' = None
    /\ UNCHANGED clientVars

\* sim_params = _resolve_dt(sim_params)
RunResolveDt ==
    /\ pc = "resolve"
    /\ sim_params' = Some(resolve_dt(call.sim_params))
    /\ pc' = "create"
    /\ UNCHANGED << call, transformer, vsat, waveforms, v_req, result, raised >>
    /\ UNCHANGED clientVars

\* transformer = TransformerFactory.create(ct_type, ct_params)
RunCreate ==
    /\ pc = "create"
    /\ LET made == FactoryCreate(call.ct_type, call.ct_params)
       IN  /\ transformer' = made.tr
           /\ raised' = made.raised
           /\ pc' = IF made.status = "ok" THEN "vsat" ELSE "raised"
    /\ UNCHANGED << call, sim_params, vsat, waveforms, v_req, result >>
    /\ UNCHANGED clientVars

\* vsat = transformer.calculate_saturation_voltage()
RunSaturationVoltage ==
    /\ pc = "vsat"
    /\ vsat' = Some(calculate_saturation_voltage(Get(transformer).params))
    /\ pc' = "simulate"
    /\ UNCHANGED << call, sim_params, transformer, waveforms, v_req, result, raised >>
    /\ UNCHANGED clientVars

\* waveforms = transformer.simulate_waveforms(sim_params)
RunSimulate ==
    /\ pc = "simulate"
    /\ \E done \in { SimulateOn(Get(transformer), Get(sim_params)) } :
           /\ transformer' = Some(done.tr)
           /\ waveforms' = Some(done.waveforms)
    /\ pc' = "required"
    /\ UNCHANGED << call, sim_params, vsat, v_req, result, raised >>
    /\ UNCHANGED clientVars

\* v_req_perm, v_req_trans = transformer.calculate_required_voltages(sim_params)
RunRequiredVoltages ==
    /\ pc = "required"
    /\ \E done \in { calculate_required_voltages(Get(transformer), Get(sim_params)) } :
           /\ transformer' = Some(done.tr)
           /\ v_req' = done.value
           /\ raised' = IF done.status = "ok" THEN None
                        ELSE Some(Raise(done.status, << >>))
           /\ pc' = IF done.status = "ok" THEN "classify" ELSE "raised"
    /\ UNCHANGED << call, sim_params, vsat, waveforms, result >>
    /\ UNCHANGED clientVars

\* saturated_perm = ... ; saturated_trans = ... ; tsat = ... ; return SimulationResult(...)
RunReturn ==
    /\ pc = "classify"
    /\ result' = Some(AssembleResult(call.ct_params, Get(sim_params), Get(waveforms),
                                     Get(vsat), v_req[1], v_req[2]))
    /\ pc' = "returned"
    /\ UNCHANGED << call, sim_params, transformer, vsat, waveforms, v_req, raised >>
    /\ UNCHANGED clientVars

NextRun ==
    \/ \E in \in RunInputs : RunCall(in)
    \/ RunResolveDt
    \/ RunCreate
    \/ RunSaturationVoltage
    \/ RunSimulate
    \/ RunRequiredVoltages
    \/ RunReturn

SpecRun == Init /\ [][NextRun]_vars

\* ------------------------------------- a client calling one model instance
\* (the session starts from the initial state, with no run_simulation made)
\* TransformerFactory.create(ct_type, params), called by the client
ClientCreate(ct_type, ct) ==
    /\ pc = "idle"
    /\ inst = None
    /\ LET made == FactoryCreate(ct_type, ct)
       IN  /\ inst' = made.tr
           /\ ret' = Returned("create", Some(ct_type), made.status,
                              IF made.status = "ok" THEN Some(made.cls) ELSE None,
                              IF made.status = "ok" THEN None ELSE Get(made.raised).names)
    /\ UNCHANGED runVars

\* inst.calculate_saturation_voltage()
ClientSaturationVoltage ==
    /\ pc = "idle"
    /\ inst # None
    /\ ret' = Returned("calculate_saturation_voltage", None, "ok",
                       Some(calculate_saturation_voltage(Get(inst).params)), None)
    /\ UNCHANGED inst
    /\ UNCHANGED runVars

\* inst.simulate_waveforms(sp)
ClientSimulate(sp) ==
    /\ pc = "idle"
    /\ inst # None
    /\ \E done \in { SimulateOn(Get(inst), sp) } :
           /\ inst' = Some(done.tr)
           /\ ret' = Returned("simulate_waveforms", Some(sp), "ok",
                              Some(done.waveforms), None)
    /\ UNCHANGED runVars

\* inst.calculate_required_voltages(sp)
ClientRequiredVoltages(sp) ==
    /\ pc = "idle"
    /\ inst # None
    /\ \E done \in { calculate_required_voltages(Get(inst), sp) } :
           /\ inst' = Some(done.tr)
           /\ ret' = Returned("calculate_required_voltages", Some(sp), done.status,
                              done.value, None)
    /\ UNCHANGED runVars

NextModel ==
    \/ \E ty \in CtTypeSet, ct \in ModelCTSet : ClientCreate(ty, ct)
    \/ ClientSaturationVoltage
    \/ \E sp \in ModelSettings : ClientSimulate(sp)
    \/ \E sp \in ModelSettings : ClientRequiredVoltages(sp)

SpecModel == Init /\ [][NextModel]_vars

\* Either use of the core: calls of run_simulation, or a client session on one
\* model instance (the two are explored separately, never interleaved).
Next == NextRun \/ NextModel

Spec == Init /\ [][Next]_vars

\* ================================================================= claims
\* the series of a Waveforms value, and the ordering of floats
Above(x, y) == x # NaN /\ y # NaN /\ x > y
Below(x, y) == x # NaN /\ y # NaN /\ x < y

\* run_simulation has called calculate_required_voltages and it has ended
AfterRequired ==
    \/ pc \in { "classify", "returned" }
    \/ pc = "raised" /\ transformer # None

\* dt * frequency_hz compared with m cycles, for the resolved settings sp
DtAtLeastCycles(sp, m) == Get(sp.dt)[1] * sp.frequency_hz >= m * Get(sp.dt)[2]
DtOverCycles(sp, m) == Get(sp.dt)[1] * sp.frequency_hz > m * Get(sp.dt)[2]

RaisedAs(kind) == raised # None /\ Get(raised).error = kind

\* ---- C1 ----------------------------------------------------------------
\* C1: on one model instance, whatever calls came before, a successful
\* calculate_required_voltages(settings) returns the voltages of Waveforms
\* simulated with that same settings value, i.e. what a fresh instance with
\* the same parameters returns for these settings (no stale cache is reused).
C1_RequiredVoltagesUseOwnSettings ==
    (ret.op = "calculate_required_voltages" /\ ret.status = "ok") =>
        ret.value =
            calculate_required_voltages(NewTransformer(Get(inst).params),
                                        Get(ret.arg)).value

\* ---- C2 ----------------------------------------------------------------
\* C2: in every result of run_simulation, tsat is +inf when saturated_trans
\* is false; when it is true, tsat is t[k] for the smallest k with
\* v_req_instant[k] > vsat, or +inf when there is no such k.
C2_SaturationTime ==
    result # None =>
        LET r == Get(result)
            v == r.waveforms.v_req_instant
        IN  IF ~r.saturated_trans THEN r.tsat = PosInf
            ELSE IF \A k \in 1..Len(v) : ~Above(v[k], r.vsat) THEN r.tsat = PosInf
            ELSE \E k \in 1..Len(v) :
                    /\ Above(v[k], r.vsat)
                    /\ \A j \in 1..(k - 1) : ~Above(v[j], r.vsat)
                    /\ r.tsat = r.waveforms.t[k]

\* witness: a result that is saturated in the transient regime, whose tsat is
\* the time of a sample after sample 0 although sample 0 equals vsat
C2_Witness ==
    /\ result # None
    /\ Get(result).saturated_trans
    /\ Get(result).tsat # PosInf
    /\ Get(result).tsat > 0
    /\ Get(result).waveforms.v_req_instant[1] = Get(result).vsat

\* ---- C3 ----------------------------------------------------------------
\* C3: in every result, saturated_perm is true exactly when vsat < v_req_perm
\* and saturated_trans exactly when vsat < v_req_trans; at equality the flag
\* is false.
C3_StrictFlags ==
    result # None =>
        LET r == Get(result)
        IN  /\ r.saturated_perm <=> Below(r.vsat, r.v_req_perm)
            /\ r.saturated_trans <=> Below(r.vsat, r.v_req_trans)
            /\ r.vsat = r.v_req_perm => ~r.saturated_perm
            /\ r.vsat = r.v_req_trans => ~r.saturated_trans

\* witness: a result whose required voltages both equal vsat, flags false
C3_Witness ==
    /\ result # None
    /\ Get(result).vsat = Get(result).v_req_perm
    /\ Get(result).vsat = Get(result).v_req_trans
    /\ ~Get(result).saturated_perm
    /\ ~Get(result).saturated_trans

\* ---- C4 ----------------------------------------------------------------
\* C4 as stated: whenever dt exceeds one cycle (dt > 1/frequency_hz),
\* calculate_required_voltages, hence run_simulation, fails with
\* InvalidConfiguration.
C4_Original ==
    (AfterRequired /\ DtOverCycles(Get(sim_params), 1)) =>
        RaisedAs("InvalidConfiguration")

\* the double 1.0 / (frequency_hz * dt) of the resolved settings sp is above 0.5
QuotientOverHalf(sp) ==
    \/ CycleQuotient(sp).e > 0 - 53
    \/ CycleQuotient(sp).e = 0 - 53 /\ CycleQuotient(sp).m # TwoPow52

\* C4 amended: whenever dt is at least two cycles (dt >= 2/frequency_hz) the
\* double 1/(frequency_hz*dt) is at most 0.5 and rounds to 0, and
\* run_simulation fails with InvalidConfiguration and returns no voltages;
\* for a dt over one cycle at which that double is above 0.5 (as at
\* frequency_hz = 1, dt = 1.5) samples_per_cycle rounds to 1 and the voltages
\* are returned.
C4_Amended ==
    AfterRequired =>
        /\ DtAtLeastCycles(Get(sim_params), 2) =>
              /\ ~QuotientOverHalf(Get(sim_params))
              /\ RaisedAs("InvalidConfiguration")
              /\ v_req = << >>
              /\ result = None
        /\ (DtOverCycles(Get(sim_params), 1) /\ QuotientOverHalf(Get(sim_params))) =>
              /\ ~DtAtLeastCycles(Get(sim_params), 2)
              /\ samples_per_cycle(Get(sim_params)) = 1
              /\ raised = None
              /\ Len(v_req) = 2

\* witness: run_simulation left by InvalidConfiguration with dt exactly two
\* cycles (1/(frequency_hz*dt) = 0.5)
C4_Witness ==
    /\ RaisedAs("InvalidConfiguration")
    /\ Get(Get(sim_params).dt)[1] * Get(sim_params).frequency_hz
          = 2 * Get(Get(sim_params).dt)[2]

\* ---- C5 ----------------------------------------------------------------
\* the identifier spells TPX in any mix of upper and lower case
SpellsTPX(id) ==
    /\ Len(id) = 3
    /\ id[1] \in { "T", "t" }
    /\ id[2] \in { "P", "p" }
    /\ id[3] \in { "X", "x" }

\* C5: TransformerFactory.create yields a model exactly when the identifier
\* is TPX up to case; for any other identifier it raises UnsupportedType
\* naming the identifier as given, and run_simulation returns no result.
C5_FactoryByType ==
    pc \notin { "idle", "resolve", "create" } =>
        IF SpellsTPX(call.ct_type)
        THEN /\ transformer # None
             /\ Get(transformer).params = call.ct_params
             /\ ~RaisedAs("UnsupportedType")
        ELSE /\ transformer = None
             /\ pc = "raised"
             /\ result = None
             /\ raised = Some([error |-> "UnsupportedType", names |-> call.ct_type])

\* witness: run_simulation("tpz") left by UnsupportedType naming "tpz"
C5_Witness ==
    /\ pc = "raised"
    /\ call.ct_type = << "t", "p", "z" >>
    /\ RaisedAs("UnsupportedType")
    /\ Get(raised).names = << "t", "p", "z" >>

\* ---- C6 ----------------------------------------------------------------
\* C6: calculate_required_voltages with dt unset raises InvalidState and
\* returns no voltages, whatever the cache holds; run_simulation never ends
\* with InvalidState, because dt is set before it calls the model.
C6_UnresolvedDtGuard ==
    /\ (ret.op = "calculate_required_voltages" /\ IsNone(Get(ret.arg).dt)) =>
          (ret.status = "InvalidState" /\ ret.value = << >>)
    /\ ~RaisedAs("InvalidState")
    /\ pc \in { "create", "vsat", "simulate", "required" } =>
          ~IsNone(Get(sim_params).dt)

\* witness: InvalidState raised on an instance whose cache was already filled
\* by a four-sample simulation (the call itself would have cached 200)
C6_Witness ==
    /\ ret.op = "calculate_required_voltages"
    /\ ret.status = "InvalidState"
    /\ inst # None
    /\ ~IsNone(Get(inst).last_waveforms)
    /\ Len(Get(Get(inst).last_waveforms).t) = 4

\* ---- C7 ----------------------------------------------------------------
\* C7: simulate_waveforms returns six series of one length n, the least
\* integer with n * dt >= n_cycles / frequency_hz, and sample 0 has zero
\* flux and zero excitation current (stated of the simulation run_simulation
\* starts, whose dt is resolved: 1/(200 * frequency_hz) if it was unset).
C7_WaveformShape ==
    waveforms # None =>
        LET w == Get(waveforms)
            sp == Get(sim_params)
            num == Get(sp.dt)[1]
            den == Get(sp.dt)[2]
            n == Len(w.t)
        IN  /\ n * num * sp.frequency_hz >= sp.n_cycles * den
            /\ (n - 1) * num * sp.frequency_hz < sp.n_cycles * den
            /\ Len(w.i_ideal) = n
            /\ Len(w.i_real) = n
            /\ Len(w.i_excitation) = n
            /\ Len(w.flux) = n
            /\ Len(w.v_req_instant) = n
            /\ w.flux[1] = 0
            /\ w.i_excitation[1] = 0

\* ---- C8 ----------------------------------------------------------------
\* C8: with a = 0, for every settings and exponent s > 0, simulate_waveforms
\* gives i_excitation[k] = 0 and i_real[k] = i_ideal[k] at every sample k.
C8_NoExcitationWhenGainZero ==
    (ret.op = "simulate_waveforms" /\ Get(inst).params.a = 0) =>
        LET w == Get(ret.value)
        IN  \A k \in 1..Len(w.t) :
                /\ w.i_excitation[k] = 0
                /\ w.i_real[k] = w.i_ideal[k]

\* ---- C9 ----------------------------------------------------------------
\* the number of halves in a float that is a multiple of one half
Halves(x) == (2 * x) \div SC

\* C9: every step that returns from calculate_saturation_voltage returns
\* v_sat when it is set (0 V included) and k_h * k_ssc * k_td * (r_ct + r_b)
\* * i_sn otherwise, and leaves the instance, its waveform cache included,
\* as it was.
C9_SaturationVoltage ==
    [][ret'.op = "calculate_saturation_voltage" =>
          /\ inst' = inst
          /\ ret'.value =
                IF Len(Get(inst).params.v_sat) = 1
                THEN Get(inst).params.v_sat
                ELSE LET ct == Get(inst).params
                     IN  << (Halves(ct.k_h) * Halves(ct.k_ssc) * Halves(ct.k_td)
                             * Halves(ct.r_ct + ct.r_b) * Halves(ct.i_sn) * SC) \div 32 >>
       ]_<< inst, ret.op >>

\* witness: 0 V returned for an override of 0 V on an instance whose cache
\* is filled
C9_Witness ==
    /\ ret.op = "calculate_saturation_voltage"
    /\ ret.value = << 0 >>
    /\ Get(inst).params.v_sat = << 0 >>
    /\ ~IsNone(Get(inst).last_waveforms)

\* ---- C10 ---------------------------------------------------------------
\* C10: once run_simulation is past its first statement (so before the model
\* is created and before any integration), its settings have dt set and
\* positive: 1/(200 * frequency_hz) if the caller left dt unset, the caller's
\* dt otherwise, every other field as supplied; the result carries exactly
\* these settings.
C10_DtResolvedUpFront ==
    /\ (pc \in { "idle", "resolve" }) => (transformer = None /\ waveforms = None)
    /\ (pc \notin { "idle", "resolve" }) =>
          LET sp == Get(sim_params)
              given == call.sim_params
          IN  /\ ~IsNone(sp.dt)
              /\ Get(sp.dt)[1] > 0
              /\ Get(sp.dt)[2] > 0
              /\ IF IsNone(given.dt)
                 THEN Get(sp.dt)[1] * 200 * given.frequency_hz = Get(sp.dt)[2]
                 ELSE sp.dt = given.dt
              /\ sp.frequency_hz = given.frequency_hz
              /\ sp.n_cycles = given.n_cycles
              /\ sp.ip_fault = given.ip_fault
              /\ sp.t_const_primary = given.t_const_primary
              /\ result # None => Get(result).sim_params = sp

\* witness: a result returned for a call that left dt unset at 2 Hz, carrying
\* dt = 1/400 s
C10_Witness ==
    /\ result # None
    /\ IsNone(call.sim_params.dt)
    /\ call.sim_params.frequency_hz = 2
    /\ Get(result).sim_params.dt = << << 1, 400 >> >>

\* ---- C11 ---------------------------------------------------------------
\* the elementwise squares of a series
SquaresOf(x) ==
    LET square(j) == FMul(x[j], x[j])
    IN  Array(Len(x), square)

\* the RMS of the w samples of the series that end at sample `end`, and the
\* largest of a non-empty set of RMS values (nan if one of them is nan)
RmsEndingAt(sq, w, end) == WindowRms(sq, end - w + 1, end)
LargestOf(S) == IF NaN \in S THEN NaN ELSE CHOOSE m \in S : \A x \in S : x <= m

\* what C11 says of a successful call that returned `value`, having computed
\* rms_values on the series i_real with total resistance r_total
SlidingRmsHolds(value, rms_values, i_real, sq, w, r_total) ==
    /\ Len(rms_values) = Len(i_real) - w + 1
    /\ \A end \in w..Len(i_real) : rms_values[end - w + 1] = RmsEndingAt(sq, w, end)
    /\ value[1] = FMul(r_total, RmsEndingAt(sq, w, Len(i_real)))
    /\ value[2] = FMul(r_total,
                       LargestOf({ RmsEndingAt(sq, w, end) : end \in w..Len(i_real) }))

\* C11: when calculate_required_voltages succeeds on a series of n samples
\* with w = samples_per_cycle, there is one RMS for each of the n - w + 1
\* windows i_real[end-w .. end-1], end = w..n; v_req_perm is (r_ct + r_b)
\* times the RMS of the window ending at the final sample and v_req_trans
\* is (r_ct + r_b) times the largest RMS of all these windows.
C11_SlidingRms ==
    (ret.op = "calculate_required_voltages" /\ ret.status = "ok") =>
        SlidingRmsHolds(ret.value,
                        RmsValues(Get(Get(inst).last_waveforms).i_real,
                                  samples_per_cycle(Get(ret.arg))),
                        Get(Get(inst).last_waveforms).i_real,
                        SquaresOf(Get(Get(inst).last_waveforms).i_real),
                        samples_per_cycle(Get(ret.arg)),
                        Get(inst).params.r_ct + Get(inst).params.r_b)

\* witness: a successful call over more than one window whose largest RMS
\* is not the one of the last window
C11_Witness ==
    /\ ret.op = "calculate_required_voltages"
    /\ ret.status = "ok"
    /\ Len(Get(Get(inst).last_waveforms).i_real) > samples_per_cycle(Get(ret.arg))
    /\ ret.value[1] # NaN
    /\ ret.value[2] > ret.value[1]

\* ---- C12 ---------------------------------------------------------------
\* the largest element of a non-empty series without nan
PeakOf(x) == CHOOSE m \in { x[j] : j \in 1..Len(x) } : \A j \in 1..Len(x) : x[j] <= m

\* C12: in every result of run_simulation (r_ct + r_b >= 0), tsat is finite
\* exactly when saturated_trans is true: a result flagged saturated in the
\* transient regime always has a sample of v_req_instant above vsat, whose
\* time is tsat.
C12_SaturationTimeFinite ==
    (result # None /\ Get(result).ct_params.r_ct + Get(result).ct_params.r_b >= 0) =>
        /\ Get(result).saturated_trans <=> IsFinite(Get(result).tsat)
        /\ Get(result).saturated_trans =>
              \E k \in 1..Len(Get(result).waveforms.t) :
                  /\ Above(Get(result).waveforms.v_req_instant[k], Get(result).vsat)
                  /\ Get(result).waveforms.t[k] = Get(result).tsat

\* witness: a result saturated in the transient regime only, with a finite
\* tsat, whose v_req_trans lies strictly between vsat and the peak of
\* v_req_instant
C12_Witness ==
    /\ result # None
    /\ Get(result).saturated_trans
    /\ ~Get(result).saturated_perm
    /\ IsFinite(Get(result).tsat)
    /\ IsFinite(Get(result).v_req_trans)
    /\ Get(result).v_req_trans < PeakOf(Get(result).waveforms.v_req_instant)

\* ---- C13 ---------------------------------------------------------------
\* C13: through run_simulation (fresh model, dt resolved, n_cycles >= 1,
\* frequency_hz > 0, dt > 0) InsufficientData is never raised: the series is
\* never shorter than samples_per_cycle; the only failure that
\* calculate_required_voltages raises there is InvalidConfiguration, and with
\* dt left unset it raises none and returns the voltages.
C13_NoInsufficientData ==
    /\ ~RaisedAs("InsufficientData")
    /\ AfterRequired =>
          /\ Len(Get(waveforms).i_real) >= samples_per_cycle(Get(sim_params))
          /\ raised # None => RaisedAs("InvalidConfiguration")
          /\ IsNone(call.sim_params.dt) => (raised = None /\ Len(v_req) = 2)

\* witness: run_simulation has its voltages from a series that is exactly
\* one window long (n = samples_per_cycle = 200, dt left unset)
C13_Witness ==
    /\ AfterRequired
    /\ raised = None
    /\ IsNone(call.sim_params.dt)
    /\ Len(v_req) = 2
    /\ Len(Get(waveforms).i_real) = 200
    /\ samples_per_cycle(Get(sim_params)) = 200

\* ---- C14 ---------------------------------------------------------------
\* x <= y on floats (false when either is nan)
AtMost(x, y) == x # NaN /\ y # NaN /\ x <= y

\* C14: whenever calculate_required_voltages has succeeded in run_simulation
\* (r_ct + r_b >= 0), 0 <= v_req_perm <= v_req_trans; and in every result
\* saturated_perm = true implies saturated_trans = true.
C14_PermanentBelowTransient ==
    /\ (AfterRequired /\ raised = None
          /\ call.ct_params.r_ct + call.ct_params.r_b >= 0) =>
              (AtMost(0, v_req[1]) /\ AtMost(v_req[1], v_req[2]))
    /\ result # None => (Get(result).saturated_perm => Get(result).saturated_trans)

=============================================================================
